---- MODULE Spec2Model ----
(***************************************************************************)
(* Model of SFTPToGCSOperator                                              *)
(* (airflow/providers/google/cloud/transfers/sftp_to_gcs.py).              *)
(*                                                                         *)
(* A path is a sequence of tokens; a token is one character, except the    *)
(* suffix ".tmp" which is kept as one token.  The SFTP server and the GCS  *)
(* bucket are the environment: every remote call either returns or raises, *)
(* and the model records each call in the order the operator issues it.    *)
(***************************************************************************)
EXTENDS Integers, Sequences, FiniteSets, TLC

\* ------------------------------------------------------------------------
\* Bounds of the model
\* ------------------------------------------------------------------------
MaxPathLen == 3
MaxFiles == 2
MaxDestLen == 5

\* ------------------------------------------------------------------------
\* Program constants and alphabets
\* ------------------------------------------------------------------------
WILDCARD == "*"
SLASH == "/"
TMP == ".tmp"

PathChars == {SLASH, "a", WILDCARD}
DestChars == {SLASH, "d"}
StreamMethods == {"getfo", "upload_from_file", "other"}

RECURSIVE StringsUpTo(_, _)
StringsUpTo(chars, n) ==
    IF n = 0 THEN {<<>>}
    ELSE LET shorter == StringsUpTo(chars, n - 1)
         IN shorter \cup {Append(s, c) : s \in shorter, c \in chars}

\* ------------------------------------------------------------------------
\* Python string operations used by the operator
\* ------------------------------------------------------------------------
StartsWith(s, p) == Len(p) <= Len(s) /\ SubSeq(s, 1, Len(p)) = p

EndsWith(s, p) == Len(p) <= Len(s) /\ SubSeq(s, Len(s) - Len(p) + 1, Len(s)) = p

\* str.count for a one-character needle
Count(s, c) == Cardinality({i \in 1..Len(s) : s[i] = c})

\* str.find, 1-based; 0 when sub does not occur
Find(s, sub) ==
    LET hits == {i \in 1..(Len(s) + 1) :
                    i + Len(sub) - 1 <= Len(s) /\ SubSeq(s, i, i + Len(sub) - 1) = sub}
    IN IF hits = {} THEN 0 ELSE CHOOSE i \in hits : \A j \in hits : i <= j

\* str.rfind for a one-character needle, 1-based; 0 when c does not occur
RFind(s, c) ==
    LET hits == {i \in 1..Len(s) : s[i] = c}
    IN IF hits = {} THEN 0 ELSE CHOOSE i \in hits : \A j \in hits : j <= i

RECURSIVE LStrip(_, _)
LStrip(s, c) == IF s # <<>> /\ Head(s) = c THEN LStrip(Tail(s), c) ELSE s

RECURSIVE RStrip(_, _)
RStrip(s, c) ==
    IF s # <<>> /\ s[Len(s)] = c THEN RStrip(SubSeq(s, 1, Len(s) - 1), c) ELSE s

\* s.replace(old, new, 1)
ReplaceFirst(s, old, new) ==
    LET i == Find(s, old)
    IN IF i = 0 THEN s
       ELSE SubSeq(s, 1, i - 1) \o new \o SubSeq(s, i + Len(old), Len(s))

\* s.split(sep, 1) for a separator that occurs in s
SplitOnce(s, sep) ==
    LET i == Find(s, <<sep>>)
    IN <<SubSeq(s, 1, i - 1), SubSeq(s, i + 1, Len(s))>>

\* s.rsplit(sep, 1): one element when sep does not occur
RSplitOnce(s, sep) ==
    LET i == RFind(s, sep)
    IN IF i = 0 THEN <<s>>
       ELSE <<SubSeq(s, 1, i - 1), SubSeq(s, i + 1, Len(s))>>

\* posixpath.dirname
Dirname(p) ==
    LET head == SubSeq(p, 1, RFind(p, SLASH))
    IN IF head # <<>> /\ LStrip(head, SLASH) # <<>> THEN RStrip(head, SLASH) ELSE head

\* ------------------------------------------------------------------------
\* Operator helpers
\* ------------------------------------------------------------------------
\* An optional string: destination_path may be None
NoPath == [isNone |-> TRUE, str |-> <<>>]
SomePath(s) == [isNone |-> FALSE, str |-> s]

_set_destination_path_strip_one(path) ==
    IF ~path.isNone
    THEN (IF StartsWith(path.str, <<SLASH>>) THEN Tail(path.str) ELSE path.str)
    ELSE <<>>
_set_destination_path(path) ==
    IF ~path.isNone
    THEN (IF StartsWith(path.str, <<SLASH>>) THEN LStrip(path.str, SLASH) ELSE path.str)
    ELSE <<>>

TooManyWildcardsOffByOne(path) == Count(path, WILDCARD) > 2
TooManyWildcards(path) == Count(path, WILDCARD) > 1

\* destination of one matched file in the wildcard loop
WildcardDestinationLastOccurrence(file, base_path, dest) ==
    LET hits == {i \in 1..(Len(file) + 1) :
                    i + Len(base_path) - 1 <= Len(file)
                    /\ SubSeq(file, i, i + Len(base_path) - 1) = base_path}
        i == CHOOSE h \in hits : \A j \in hits : j <= h
    IN IF hits = {} THEN file
       ELSE SubSeq(file, 1, i - 1) \o dest \o SubSeq(file, i + Len(base_path), Len(file))
WildcardDestination(file, base_path, dest) == ReplaceFirst(file, base_path, dest)

temp_destination_object_in_place(destination_object) == destination_object
temp_destination_object(destination_object) == Append(destination_object, TMP)

\* values of destination_path: absent, empty, relative, with a leading slash
Destinations ==
    {NoPath, SomePath(<<>>), SomePath(<<"d">>), SomePath(<<SLASH, "d">>)}

\* ------------------------------------------------------------------------
\* Environment: what the SFTP listing can return
\* ------------------------------------------------------------------------
\* SFTPHook._is_path_match
IsPathMatch(file, prefix, delimiter) == StartsWith(file, prefix) /\ EndsWith(file, delimiter)

\* walktree yields os.path.join(base_path, <relative name>) for regular files
UnderBase(file, base_path) ==
    /\ file # <<>>
    /\ file[Len(file)] # SLASH
    /\ IF base_path = <<>> THEN Head(file) # SLASH
       ELSE IF base_path[Len(base_path)] = SLASH
            THEN StartsWith(file, base_path) /\ Len(file) > Len(base_path)
            ELSE StartsWith(file, Append(base_path, SLASH))
                 /\ Len(file) > Len(base_path) + 1

\* what the wildcard stands for in the names found on the server
Matched == {<<>>, <<"a">>, <<TMP>>}

Candidates(path) ==
    LET parts == SplitOnce(path, WILDCARD)
        base_path == Dirname(parts[1])
    IN {f \in {parts[1] \o mid \o parts[2] : mid \in Matched} :
            IsPathMatch(f, parts[1], parts[2]) /\ UnderBase(f, base_path)}

\* duplicate-free sequences of at most n elements of S
Listings(S, n) ==
    {l \in UNION {[1..k -> S] : k \in 0..n} :
        \A i, j \in 1..Len(l) : i # j => l[i] # l[j]}

\* destination keys an invocation will use
SingleDestination(path, dest) ==
    IF dest # <<>> THEN <<dest>>
    ELSE IF Len(RSplitOnce(path, SLASH)) > 1 THEN <<RSplitOnce(path, SLASH)[2]>> ELSE <<>>

DestinationKeys(path, dpath, listing) ==
    LET dest == _set_destination_path(dpath)
    IN IF Count(path, WILDCARD) = 1
       THEN {WildcardDestination(listing[i], Dirname(SplitOnce(path, WILDCARD)[1]), dest) :
                i \in 1..Len(listing)}
       ELSE IF Count(path, WILDCARD) = 0
            THEN {SingleDestination(path, dest)[i] :
                     i \in 1..Len(SingleDestination(path, dest))}
            ELSE {}

\* content of an object: <<kind, source path>>
OldContent == <<"old", <<>>>>
FullContent(src) == <<"full", src>>
PartialContent(src) == <<"partial", src>>

\* objects found in the bucket when execute starts: leftovers of earlier runs at the
\* temp keys ("temp"), earlier results at the destination keys ("final"), both or none
Leftovers == SUBSET {"temp", "final"}

InitialBucket(kinds, dests) ==
    LET keys == (IF "final" \in kinds THEN dests ELSE {})
                \cup (IF "temp" \in kinds THEN {temp_destination_object(d) : d \in dests}
                      ELSE {})
    IN [k \in keys |-> OldContent]


\* ------------------------------------------------------------------------
\* State
\* ------------------------------------------------------------------------
VARIABLES
    source_path,       \* self.source_path
    destination_path,  \* self.destination_path (optional until execute normalises it)
    move_object,       \* self.move_object
    use_stream,        \* self.use_stream
    stream_method,     \* self.stream_method
    remote_files,      \* what get_tree_map returns for this source_path
    sftp,              \* files present on the SFTP server
    bucket,            \* objects of the destination bucket: key -> content
    local_tmp,         \* pairs whose NamedTemporaryFile exists on local disk
    pc,                \* position of execute
    files,             \* local variable files of execute
    pairs,             \* (source, destination) of every transfer_single_object call
    before,            \* bucket as it was when the current pair's transfer started
    error,             \* exception that ended execute, "none" otherwise
    calls,             \* remote calls issued so far, in order
    peer               \* position of a second invocation on the same key, "off" if none

\* what no step of this invocation changes: its parameters, the listing the server would
\* give, and the position of the other invocation
config == <<source_path, move_object, use_stream, stream_method, remote_files, peer>>
vars == <<source_path, destination_path, move_object, use_stream, stream_method,
          remote_files, sftp, bucket, local_tmp, pc, files, pairs, before, error, calls,
          peer>>

cur == pairs[Len(pairs)]
cur_tmp == temp_destination_object(cur.dest)
HasWildcard == Count(source_path, WILDCARD) > 0

\* one remote call: what was called, for which pair, on what, and how it ended
Call(op, arg, res) == [op |-> op, pair |-> Len(pairs), arg |-> arg, res |-> res]
Log(op, arg, res) == calls' = Append(calls, Call(op, arg, res))

Exists(key) == IF key \in DOMAIN bucket THEN "true" ELSE "false"

Put(b, key, content) == [k \in DOMAIN b \cup {key} |-> IF k = key THEN content ELSE b[k]]
Remove(b, key) == [k \in DOMAIN b \ {key} |-> b[k]]

Init ==
    /\ source_path \in StringsUpTo(PathChars, MaxPathLen) \ {<<>>}
    /\ destination_path \in Destinations
    /\ move_object \in BOOLEAN
    /\ use_stream \in BOOLEAN
    /\ stream_method \in StreamMethods
    /\ remote_files \in IF Count(source_path, WILDCARD) = 1
                         THEN Listings(Candidates(source_path), MaxFiles)
                         ELSE {<<>>}
    /\ sftp = IF Count(source_path, WILDCARD) = 0 THEN {source_path}
              ELSE {remote_files[i] : i \in 1..Len(remote_files)}
    /\ bucket \in {InitialBucket(kinds,
                                 DestinationKeys(source_path, destination_path, remote_files)) :
                      kinds \in Leftovers}
    /\ local_tmp = {}
    /\ pc = "start"
    /\ files = <<>>
    /\ pairs = <<>>
    /\ before = bucket
    /\ error = "none"
    /\ calls = <<>>
    /\ peer = "off"

\* entry of _copy_single_object / _stream_single_object for one pair
StartPairUploadFirst(source, destination_object) ==
    /\ pairs' = Append(pairs, [source |-> source, dest |-> destination_object])
    /\ before' = bucket
    /\ IF use_stream
       THEN pc' = "s_exists" /\ UNCHANGED local_tmp
       ELSE pc' = "b_upload" /\ local_tmp' = local_tmp \cup {Len(pairs) + 1}
StartPair(source, destination_object) ==
    /\ pairs' = Append(pairs, [source |-> source, dest |-> destination_object])
    /\ before' = bucket
    /\ IF use_stream
       THEN pc' = "s_exists" /\ UNCHANGED local_tmp
       ELSE pc' = "b_retrieve" /\ local_tmp' = local_tmp \cup {Len(pairs) + 1}

\* where execute goes once a pair's transfer function has returned
AfterPair == IF HasWildcard THEN "loop" ELSE "done"
\* an exception leaves execute: nothing catches it
RaiseAndContinue(e) == pc' = AfterPair /\ error' = e
Raise(e) == pc' = "failed" /\ error' = e
\* where the transfer function goes once its strategy has returned
AfterStrategyNoMoveCheck == "delete_source"
AfterStrategy == IF move_object THEN "delete_source" ELSE AfterPair
\* if temp_dest_blob.exists() before the transfer
AfterStaleCheckNoCleanup(exists) == "s_transfer"
AfterStaleCheck(exists) == IF exists THEN "s_delete_stale" ELSE "s_transfer"
\* if temp_dest_blob.exists() after the transfer
AfterTempCheckAlwaysCopy(exists) == "s_copy"
AfterTempCheckAbort(exists) == IF exists THEN "s_copy" ELSE "failed"
AfterTempCheck(exists) == IF exists THEN "s_copy" ELSE AfterStrategy
\* exit of the NamedTemporaryFile block, normal (ok) or by an exception
ReleaseTempOnSuccessOnly(ok) == IF ok THEN local_tmp \ {Len(pairs)} ELSE local_tmp
ReleaseTemp(ok) == local_tmp \ {Len(pairs)}

\* the bucket once delete_file has returned or raised: nothing undoes the upload
BucketRolledBack == [k \in DOMAIN bucket \ {cur.dest} |-> bucket[k]]
BucketAfterDeleteFile == bucket

\* ---- execute -----------------------------------------------------------
ExecuteTooManyWildcards ==
    /\ pc = "start"
    /\ HasWildcard /\ TooManyWildcards(source_path)
    /\ destination_path' = SomePath(_set_destination_path(destination_path))
    /\ Raise("AirflowException")
    /\ UNCHANGED <<config, sftp, bucket, local_tmp, files, pairs, before, calls>>

ExecuteWildcard ==
    /\ pc = "start"
    /\ HasWildcard /\ ~TooManyWildcards(source_path)
    /\ destination_path' = SomePath(_set_destination_path(destination_path))
    /\ pc' = "list"
    /\ UNCHANGED <<config, sftp, bucket, local_tmp, files, pairs, before, error, calls>>

GetTreeMap ==
    /\ pc = "list"
    /\ \/ /\ Log("listTree", Dirname(SplitOnce(source_path, WILDCARD)[1]), "ok")
          /\ files' = remote_files
          /\ pc' = "loop"
          /\ UNCHANGED error
       \/ /\ Log("listTree", Dirname(SplitOnce(source_path, WILDCARD)[1]), "raised")
          /\ Raise("RemoteError")
          /\ UNCHANGED files
    /\ UNCHANGED <<config, destination_path, sftp, bucket, local_tmp, pairs, before>>

LoopNext ==
    /\ pc = "loop"
    /\ Len(pairs) < Len(files)
    /\ LET file == files[Len(pairs) + 1]
           base_path == Dirname(SplitOnce(source_path, WILDCARD)[1])
       IN StartPair(file, WildcardDestination(file, base_path, destination_path.str))
    /\ UNCHANGED <<config, destination_path, sftp, bucket, files, error, calls>>

LoopEnd ==
    /\ pc = "loop"
    /\ Len(pairs) >= Len(files)
    /\ pc' = "done"
    /\ UNCHANGED <<config, destination_path, sftp, bucket, local_tmp, files, pairs, before,
                   error, calls>>

ExecuteSingle ==
    /\ pc = "start"
    /\ ~HasWildcard
    /\ LET dest == _set_destination_path(destination_path)
       IN /\ dest # <<>> \/ Len(RSplitOnce(source_path, SLASH)) > 1
          /\ destination_path' = SomePath(dest)
          /\ StartPair(source_path,
                       IF dest # <<>> THEN dest ELSE RSplitOnce(source_path, SLASH)[2])
    /\ UNCHANGED <<config, sftp, bucket, files, error, calls>>

\* source_path.rsplit("/", 1)[1] on a path without "/"
ExecuteSingleIndexError ==
    /\ pc = "start"
    /\ ~HasWildcard
    /\ LET dest == _set_destination_path(destination_path)
       IN /\ dest = <<>> /\ Len(RSplitOnce(source_path, SLASH)) <= 1
          /\ destination_path' = SomePath(dest)
    /\ Raise("IndexError")
    /\ UNCHANGED <<config, sftp, bucket, local_tmp, files, pairs, before, calls>>

\* ---- _copy_single_object -----------------------------------------------
\* sftp_hook.retrieve_file inside the NamedTemporaryFile block
RetrieveFile ==
    /\ pc = "b_retrieve"
    /\ \/ /\ Log("retrieveFile", cur.source, "ok")
          /\ pc' = "b_upload"
          /\ UNCHANGED <<local_tmp, error>>
       \/ /\ Log("retrieveFile", cur.source, "raised")
          /\ local_tmp' = ReleaseTemp(FALSE)
          /\ Raise("RemoteError")
    /\ UNCHANGED <<config, destination_path, sftp, bucket, files, pairs, before>>

\* gcs_hook.upload, then the exit of the NamedTemporaryFile block
Upload ==
    /\ pc = "b_upload"
    /\ \/ /\ Log("upload", cur.dest, "ok")
          /\ bucket' = Put(bucket, cur.dest, FullContent(cur.source))
          /\ local_tmp' = ReleaseTemp(TRUE)
          /\ pc' = AfterStrategy
          /\ UNCHANGED error
       \/ /\ Log("upload", cur.dest, "raised")
          /\ local_tmp' = ReleaseTemp(FALSE)
          /\ Raise("RemoteError")
          /\ UNCHANGED bucket
    /\ UNCHANGED <<config, destination_path, sftp, files, pairs, before>>

\* sftp_hook.delete_file when move_object is set (both transfer functions)
DeleteFile ==
    /\ pc = "delete_source"
    /\ \/ /\ Log("deleteFile", cur.source, "ok")
          /\ sftp' = sftp \ {cur.source}
          /\ pc' = AfterPair
          /\ UNCHANGED error
       \/ /\ Log("deleteFile", cur.source, "raised")
          /\ Raise("RemoteError")
          /\ UNCHANGED sftp
    /\ bucket' = BucketAfterDeleteFile
    /\ UNCHANGED <<config, destination_path, local_tmp, files, pairs, before>>

\* ---- _stream_single_object ---------------------------------------------
\* temp_dest_blob.exists() before the transfer
CheckStaleTemp ==
    /\ pc = "s_exists"
    /\ \/ /\ Log("objectExists", cur_tmp, Exists(cur_tmp))
          /\ pc' = AfterStaleCheck(cur_tmp \in DOMAIN bucket)
          /\ UNCHANGED error
       \/ /\ Log("objectExists", cur_tmp, "raised")
          /\ Raise("RemoteError")
    /\ UNCHANGED <<config, destination_path, sftp, bucket, local_tmp, files, pairs, before>>

\* temp_dest_blob.delete() of a stale temp object
DeleteStaleTemp ==
    /\ pc = "s_delete_stale"
    /\ \/ /\ cur_tmp \in DOMAIN bucket
          /\ Log("deleteObject", cur_tmp, "ok")
          /\ bucket' = Remove(bucket, cur_tmp)
          /\ pc' = "s_transfer"
          /\ UNCHANGED error
       \/ /\ Log("deleteObject", cur_tmp, "raised")
          /\ Raise("RemoteError")
          /\ UNCHANGED bucket
    /\ UNCHANGED <<config, destination_path, sftp, local_tmp, files, pairs, before>>

\* dest_blob.open("wb")
OpenWriteStream ==
    /\ pc = "s_transfer"
    /\ stream_method = "getfo"
    /\ \/ /\ Log("openWriteStream", cur.dest, "ok")
          /\ pc' = "s_getfo"
          /\ UNCHANGED error
       \/ /\ Log("openWriteStream", cur.dest, "raised")
          /\ Raise("RemoteError")
    /\ UNCHANGED <<config, destination_path, sftp, bucket, local_tmp, files, pairs, before>>

\* getfo into the write stream, then the exit of the with block
GetFo ==
    /\ pc = "s_getfo"
    /\ \/ /\ Log("getfo", cur.source, "ok")
          /\ bucket' = Put(bucket, cur.dest, FullContent(cur.source))
          /\ pc' = "s_check"
          /\ UNCHANGED error
       \/ \* the copy breaks off: what was written so far may or may not be kept
          /\ Log("getfo", cur.source, "raised")
          /\ Raise("RemoteError")
          /\ \/ bucket' = Put(bucket, cur.dest, PartialContent(cur.source))
             \/ UNCHANGED bucket
    /\ UNCHANGED <<config, destination_path, sftp, local_tmp, files, pairs, before>>

\* sftp_hook.get_conn().file(source_path, 'rb')
OpenReadStream ==
    /\ pc = "s_transfer"
    /\ stream_method = "upload_from_file"
    /\ \/ /\ Log("openReadStream", cur.source, "ok")
          /\ pc' = "s_upload"
          /\ UNCHANGED error
       \/ /\ Log("openReadStream", cur.source, "raised")
          /\ Raise("RemoteError")
    /\ UNCHANGED <<config, destination_path, sftp, bucket, local_tmp, files, pairs, before>>

\* temp_dest_blob.upload_from_file(source_stream)
UploadFromFile ==
    /\ pc = "s_upload"
    /\ \/ /\ Log("upload", cur_tmp, "ok")
          /\ bucket' = Put(bucket, cur_tmp, FullContent(cur.source))
          /\ pc' = "s_check"
          /\ UNCHANGED error
       \/ \* the call returns but the temp object is not there afterwards
          /\ Log("upload", cur_tmp, "ok")
          /\ pc' = "s_check"
          /\ UNCHANGED <<bucket, error>>
       \/ /\ Log("upload", cur_tmp, "raised")
          /\ Raise("RemoteError")
          /\ UNCHANGED bucket
    /\ UNCHANGED <<config, destination_path, sftp, local_tmp, files, pairs, before>>

\* neither "getfo" nor "upload_from_file"
InvalidMethod ==
    /\ pc = "s_transfer"
    /\ stream_method \notin {"getfo", "upload_from_file"}
    /\ Raise("ValueError")
    /\ UNCHANGED <<config, destination_path, sftp, bucket, local_tmp, files, pairs, before,
                   calls>>

\* temp_dest_blob.exists() after the transfer
CheckTemp ==
    /\ pc = "s_check"
    /\ \/ /\ Log("objectExists", cur_tmp, Exists(cur_tmp))
          /\ pc' = AfterTempCheck(cur_tmp \in DOMAIN bucket)
          /\ UNCHANGED error
       \/ /\ Log("objectExists", cur_tmp, "raised")
          /\ Raise("RemoteError")
    /\ UNCHANGED <<config, destination_path, sftp, bucket, local_tmp, files, pairs, before>>

\* dest_bucket.copy_blob(temp_dest_blob, dest_bucket, destination_object)
CopyBlob ==
    /\ pc = "s_copy"
    /\ \/ /\ cur_tmp \in DOMAIN bucket
          /\ Log("copyObject", cur.dest, "ok")
          /\ bucket' = Put(bucket, cur.dest, bucket[cur_tmp])
          /\ pc' = "s_delete_tmp"
          /\ UNCHANGED error
       \/ /\ Log("copyObject", cur.dest, "raised")
          /\ Raise("RemoteError")
          /\ UNCHANGED bucket
    /\ UNCHANGED <<config, destination_path, sftp, local_tmp, files, pairs, before>>

\* temp_dest_blob.delete() after the copy
DeleteTemp ==
    /\ pc = "s_delete_tmp"
    /\ \/ /\ cur_tmp \in DOMAIN bucket
          /\ Log("deleteObject", cur_tmp, "ok")
          /\ bucket' = Remove(bucket, cur_tmp)
          /\ pc' = AfterStrategy
          /\ UNCHANGED error
       \/ /\ Log("deleteObject", cur_tmp, "raised")
          /\ Raise("RemoteError")
          /\ UNCHANGED bucket
    /\ UNCHANGED <<config, destination_path, sftp, local_tmp, files, pairs, before>>

Next ==
    \/ ExecuteTooManyWildcards
    \/ ExecuteWildcard
    \/ GetTreeMap
    \/ LoopNext
    \/ LoopEnd
    \/ ExecuteSingle
    \/ ExecuteSingleIndexError
    \/ RetrieveFile
    \/ Upload
    \/ DeleteFile
    \/ CheckStaleTemp
    \/ DeleteStaleTemp
    \/ OpenWriteStream
    \/ GetFo
    \/ OpenReadStream
    \/ UploadFromFile
    \/ InvalidMethod
    \/ CheckTemp
    \/ CopyBlob
    \/ DeleteTemp

Spec == Init /\ [][Next]_vars

\* ------------------------------------------------------------------------
\* Properties
\* ------------------------------------------------------------------------
CallsOf(op) == {k \in 1..Len(calls) : calls[k].op = op}
InStream == use_stream /\ stream_method = "upload_from_file"
\* the transfer function of pair i has returned
Returned(i) == i < Len(pairs) \/ (i = Len(pairs) /\ pc \in {"loop", "done"})

\* C1: with move_object set, deleteFile is called on a pair's source only when the
\* pair's final destination object exists in the bucket at that moment.
MoveOnlyAfterVerifiedTransfer ==
    pc = "delete_source" => cur.dest \in DOMAIN bucket

\* C2: with move_object set, every pair whose transfer function returned had deleteFile
\* called exactly once, on its own source path, and no deleteFile call names any other
\* path; without move_object there is no deleteFile call at all.
DeleteExactlyOncePerPair ==
    /\ ~move_object => CallsOf("deleteFile") = {}
    /\ \A k \in CallsOf("deleteFile") :
          /\ calls[k].pair \in 1..Len(pairs)
          /\ calls[k].arg = pairs[calls[k].pair].source
    /\ \A i \in 1..Len(pairs) :
          /\ Cardinality({k \in CallsOf("deleteFile") : calls[k].pair = i}) <= 1
          /\ move_object /\ Returned(i) =>
                Cardinality({k \in CallsOf("deleteFile") :
                                calls[k].arg = pairs[i].source}) = 1

WitnessDeleteExactlyOncePerPair ==
    /\ move_object
    /\ pc = "done"
    /\ Len(pairs) = 2
    /\ Cardinality(CallsOf("deleteFile")) = 2

\* the check after the upload of the current pair found no temp object
TempFoundMissing ==
    \E k \in CallsOf("objectExists") :
        /\ k > 1
        /\ calls[k - 1].op = "upload"
        /\ calls[k].pair = Len(pairs)
        /\ calls[k].res = "false"

\* C3: StreamUploadFromFile: when the temp object is absent at the check after the
\* upload, no copy to the final key is issued for the pair, and a destination key that
\* held no object before the pair still holds none.
NoFinalizeWithoutTemp ==
    InStream /\ TempFoundMissing =>
        /\ \A k \in CallsOf("copyObject") : calls[k].pair # Len(pairs)
        /\ cur.dest \notin DOMAIN before => cur.dest \notin DOMAIN bucket

WitnessNoFinalizeWithoutTemp ==
    /\ InStream
    /\ TempFoundMissing
    /\ cur.dest \notin DOMAIN before
    /\ pc = "done"

\* temp-object deletions of the current pair issued before call k
DeletesBefore(k) ==
    {j \in CallsOf("deleteObject") :
        j < k /\ calls[j].pair = Len(pairs) /\ calls[j].arg = cur_tmp}

\* C4: StreamUploadFromFile: the upload of a pair is preceded by exactly one delete of
\* the temp object when a stale one existed at the start of the pair, and by none
\* otherwise.
StaleTempDeletedOnceBeforeUpload ==
    InStream =>
        \A k \in CallsOf("upload") :
            calls[k].pair = Len(pairs) =>
                Cardinality(DeletesBefore(k)) = IF cur_tmp \in DOMAIN before THEN 1 ELSE 0

WitnessStaleTempDeletedOnceBeforeUpload ==
    /\ InStream
    /\ pairs # <<>>
    /\ cur_tmp \in DOMAIN before
    /\ \E k \in CallsOf("upload") :
          calls[k].pair = Len(pairs) /\ calls[k].res = "ok" /\ DeletesBefore(k) # {}

\* C5: Buffered mode: the local temporary file of a pair exists only while the pair's
\* retrieval and upload are in progress; it is gone on every exit path and before the
\* source file is deleted.
LocalTempReleased ==
    /\ pc \notin {"b_retrieve", "b_upload"} => local_tmp = {}
    /\ local_tmp \subseteq {Len(pairs)}

WitnessLocalTempReleased ==
    /\ ~use_stream
    /\ pc = "failed"
    /\ calls # <<>>
    /\ calls[Len(calls)].op = "upload"
    /\ calls[Len(calls)].res = "raised"
    /\ local_tmp = {}

\* C6: a source_path with two or more wildcards ends execute with the validation error
\* and without a single remote call, transfer or change to either store.
ManyWildcardsFailBeforeAnyCall ==
    Count(source_path, WILDCARD) >= 2 =>
        /\ calls = <<>>
        /\ pairs = <<>>
        /\ bucket = before
        /\ pc \in {"start", "failed"}
        /\ pc = "failed" => error = "AirflowException"

WitnessManyWildcardsFailBeforeAnyCall ==
    /\ Count(source_path, WILDCARD) >= 2
    /\ pc = "failed"
    /\ error = "AirflowException"
    /\ calls = <<>>

\* C7: an unrecognized stream_method raises the configuration error before any remote
\* call has been issued.
InvalidMethodFailsBeforeAnyIO ==
    error = "ValueError" => calls = <<>>

\* the last call of pair i, 0 when the pair issued none
LastCallOf(i) ==
    LET ks == {k \in 1..Len(calls) : calls[k].pair = i}
    IN IF ks = {} THEN 0 ELSE CHOOSE k \in ks : \A j \in ks : j <= k

\* C8: pairs are taken in listing order, the calls of a pair all precede the calls of
\* the next pair, a pair is started only after the previous one went through without an
\* error (its source deleted when moving), and nothing is called once an error was raised.
SequentialAndAbortOnError ==
    /\ \A j, k \in 1..Len(calls) : j < k => calls[j].pair <= calls[k].pair
    /\ HasWildcard => \A i \in 1..Len(pairs) : i <= Len(files) /\ pairs[i].source = files[i]
    /\ \A i \in 1..Len(pairs) :
          i < Len(pairs) =>
              /\ LastCallOf(i) # 0
              /\ calls[LastCallOf(i)].res # "raised"
              /\ move_object => calls[LastCallOf(i)].op = "deleteFile"
    /\ error # "none" =>
          /\ pc = "failed"
          /\ calls # <<>> => /\ calls[Len(calls)].pair = Len(pairs)
                             /\ error = "RemoteError" => calls[Len(calls)].res = "raised"

WitnessSequentialAndAbortOnError ==
    /\ Len(files) = 2
    /\ Len(pairs) = 1
    /\ pc = "failed"
    /\ error = "RemoteError"
    /\ Len(calls) > 1

\* C9: no resolved pair has a destination key that starts with "/".
DestinationKeyNeverStartsWithSlash ==
    \A i \in 1..Len(pairs) : ~StartsWith(pairs[i].dest, <<SLASH>>)

\* C10: with exactly one wildcard, pair i is entry i of the listing and its destination
\* is the normalized destination_path followed by what follows base_path in the entry;
\* a run that completes has produced one pair per entry.
WildcardPairsFollowListing ==
    Count(source_path, WILDCARD) = 1 =>
        LET base_path == Dirname(SplitOnce(source_path, WILDCARD)[1])
        IN /\ Len(pairs) <= Len(files)
           /\ pc = "done" => files = remote_files /\ Len(pairs) = Len(remote_files)
           /\ \A i \in 1..Len(pairs) :
                 /\ pairs[i].source = remote_files[i]
                 /\ pairs[i].dest =
                        _set_destination_path(destination_path)
                            \o SubSeq(pairs[i].source, Len(base_path) + 1,
                                      Len(pairs[i].source))

WitnessWildcardPairsFollowListing ==
    /\ Count(source_path, WILDCARD) = 1
    /\ pc = "done"
    /\ Len(pairs) = 2
    /\ destination_path.str # <<>>
    /\ Dirname(SplitOnce(source_path, WILDCARD)[1]) # <<>>

\* C11: a source_path without wildcard yields exactly one pair and one transfer; its
\* destination is the normalized destination_path when that is not empty and the text
\* after the last "/" of source_path (the whole path when it has no "/") otherwise.
SinglePathYieldsOnePair ==
    Count(source_path, WILDCARD) = 0 /\ pc # "start" =>
        /\ Len(pairs) = 1
        /\ pairs[1].source = source_path
        /\ pairs[1].dest =
              IF destination_path.str # <<>> THEN destination_path.str
              ELSE SubSeq(source_path, RFind(source_path, SLASH) + 1, Len(source_path))

\* ------------------------------------------------------------------------
\* _set_destination_path on its own, over every destination_path up to MaxDestLen
\* ------------------------------------------------------------------------
InitNormalize ==
    /\ source_path = <<"a">>
    /\ destination_path \in {NoPath} \cup {SomePath(d) : d \in StringsUpTo(DestChars, MaxDestLen)}
    /\ move_object = FALSE
    /\ use_stream = FALSE
    /\ stream_method = "upload_from_file"
    /\ remote_files = <<>>
    /\ sftp = {}
    /\ bucket = <<>>
    /\ local_tmp = {}
    /\ pc = "start"
    /\ files = <<>>
    /\ pairs = <<>>
    /\ before = <<>>
    /\ error = "none"
    /\ calls = <<>>
    /\ peer = "off"

\* self.destination_path = self._set_destination_path(self.destination_path);
\* the argument and the value returned are kept in calls
Normalize ==
    /\ pc = "start"
    /\ destination_path' = SomePath(_set_destination_path(destination_path))
    /\ Log("_set_destination_path", destination_path, _set_destination_path(destination_path))
    /\ pc' = "done"
    /\ UNCHANGED <<config, sftp, bucket, local_tmp, files, pairs, before, error>>

NextNormalize == Normalize

SpecNormalize == InitNormalize /\ [][NextNormalize]_vars

\* C12 as stated: the result is the path without its first character when that is "/",
\* the path itself otherwise, and empty for an absent path.
NormalizeStripsOneSlash ==
    \A k \in CallsOf("_set_destination_path") :
        calls[k].res =
            IF calls[k].arg.isNone THEN <<>>
            ELSE IF StartsWith(calls[k].arg.str, <<SLASH>>) THEN Tail(calls[k].arg.str)
                 ELSE calls[k].arg.str

\* C12 amended: the result is the path without any of its leading "/", so it is the
\* path itself when that does not start with "/", and empty for an empty or absent path.
NormalizeStripsLeadingSlashes ==
    \A k \in CallsOf("_set_destination_path") :
        LET in == calls[k].arg
            out == calls[k].res
        IN /\ in.isNone => out = <<>>
           /\ ~in.isNone =>
                 /\ out = <<>> \/ out[1] # SLASH
                 /\ \E n \in 0..Len(in.str) :
                       /\ \A i \in 1..n : in.str[i] = SLASH
                       /\ out = SubSeq(in.str, n + 1, Len(in.str))

WitnessNormalizeStripsLeadingSlashes ==
    \E k \in CallsOf("_set_destination_path") :
        /\ calls[k].arg = SomePath(<<SLASH, SLASH, "d", SLASH>>)
        /\ calls[k].res = <<"d", SLASH>>
        /\ pc = "done"

\* C13: StreamGetFo never creates, deletes or copies from the object <destination>.tmp:
\* while a pair is processed that key holds what it held when the pair started.
GetFoLeavesTempObjectAlone ==
    use_stream /\ stream_method = "getfo" /\ pairs # <<>> =>
        /\ \A k \in CallsOf("deleteObject") \cup CallsOf("copyObject") :
              calls[k].pair # Len(pairs)
        /\ cur_tmp \in DOMAIN bucket <=> cur_tmp \in DOMAIN before
        /\ cur_tmp \in DOMAIN before => bucket[cur_tmp] = before[cur_tmp]

\* the transfer of the current pair has put its content at the destination key
UploadCompleted ==
    \E k \in 1..Len(calls) :
        /\ calls[k].pair = Len(pairs)
        /\ calls[k].res = "ok"
        /\ \/ calls[k].op = "upload" /\ calls[k].arg = cur.dest
           \/ calls[k].op = "getfo"
           \/ calls[k].op = "copyObject"

DeleteFileRaised ==
    /\ calls # <<>>
    /\ calls[Len(calls)].op = "deleteFile"
    /\ calls[Len(calls)].res = "raised"

\* C14: when delete_file raises after the pair's upload completed, execute ends with
\* that error, and the destination object is still there with the transferred content.
DeleteFailureKeepsUpload ==
    DeleteFileRaised =>
        /\ pc = "failed"
        /\ error = "RemoteError"
        /\ UploadCompleted =>
              /\ cur.dest \in DOMAIN bucket
              /\ bucket[cur.dest] = FullContent(cur.source)

WitnessDeleteFailureKeepsUpload ==
    /\ DeleteFileRaised
    /\ UploadCompleted
    /\ use_stream
    /\ stream_method = "upload_from_file"
    /\ cur.dest \notin DOMAIN before
    /\ bucket[cur.dest] = FullContent(cur.source)

\* the check after the upload of pair i found no temp object
TempMissingFor(i) ==
    \E k \in CallsOf("objectExists") :
        k > 1 /\ calls[k - 1].op = "upload" /\ calls[k].pair = i /\ calls[k].res = "false"

\* C15: StreamUploadFromFile: a temp object found missing after the upload raises
\* nothing: the transfer function carries on to its move step or returns to the loop,
\* and the only error the pair can still end with is that of delete_file.
FinalizationFailureNotRaised ==
    InStream =>
        \A i \in 1..Len(pairs) :
            TempMissingFor(i) =>
                /\ i = Len(pairs) /\ calls[Len(calls)].op = "objectExists" =>
                      /\ error = "none"
                      /\ pc \in IF move_object THEN {"delete_source"}
                                ELSE IF HasWildcard THEN {"loop", "done"} ELSE {"done"}
                /\ i = Len(pairs) /\ error # "none" => DeleteFileRaised
                /\ \A k \in CallsOf("copyObject") : calls[k].pair # i

WitnessFinalizationFailureNotRaised ==
    /\ InStream
    /\ Len(pairs) = 2
    /\ TempMissingFor(1)
    /\ pairs[1].dest \notin DOMAIN bucket
    /\ \E k \in CallsOf("upload") : calls[k].pair = 2
    /\ pc = "done"
    /\ error = "none"

\* C16: Buffered mode: every upload directly follows a retrieve_file of the same pair
\* that returned, and names that pair's destination key; when retrieve_file raises, the
\* pair has no upload call and the bucket is as it was when the pair started.
BufferedRetrieveBeforeUpload ==
    ~use_stream =>
        /\ \A k \in CallsOf("upload") :
              /\ k > 1
              /\ calls[k - 1].op = "retrieveFile"
              /\ calls[k - 1].res = "ok"
              /\ calls[k - 1].pair = calls[k].pair
              /\ calls[k - 1].arg = pairs[calls[k].pair].source
              /\ calls[k].arg = pairs[calls[k].pair].dest
        /\ pc \in {"b_retrieve", "b_upload"} => bucket = before
        /\ calls # <<>> /\ calls[Len(calls)].op = "retrieveFile"
                        /\ calls[Len(calls)].res = "raised" =>
              /\ pc = "failed"
              /\ bucket = before
              /\ \A k \in CallsOf("upload") : calls[k].pair # Len(pairs)

WitnessBufferedRetrieveBeforeUpload ==
    /\ ~use_stream
    /\ Len(pairs) = 2
    /\ \E k \in CallsOf("upload") : calls[k].pair = 1 /\ calls[k].res = "ok"
    /\ calls[Len(calls)].op = "retrieveFile"
    /\ calls[Len(calls)].res = "raised"
    /\ pairs[2].dest \notin DOMAIN bucket

\* the stream transfer of pair i has written its final destination object
Produced(i) ==
    \E k \in CallsOf("getfo") \cup CallsOf("copyObject") :
        calls[k].pair = i /\ calls[k].res = "ok"

\* C17: in a stream-mode invocation, the final destination object produced for a pair
\* is neither deleted nor overwritten while a later pair is processed.
TempScopedToOnePair ==
    use_stream =>
        \A i \in 1..Len(pairs) :
            i < Len(pairs) /\ Produced(i) =>
                /\ pairs[i].dest \in DOMAIN bucket
                /\ bucket[pairs[i].dest] = FullContent(pairs[i].source)

\* ------------------------------------------------------------------------
\* Two invocations in upload_from_file mode on the same destination key
\* ------------------------------------------------------------------------
\* the other invocation streams another source file to the same key
PeerSource == <<"p">>
PeerDest == _set_destination_path(destination_path)
PeerTmp == temp_destination_object(PeerDest)

InitConcurrent ==
    /\ source_path \in {<<"a">>, <<SLASH, "a">>}
    /\ destination_path \in {SomePath(<<"d">>), SomePath(<<SLASH, "d">>)}
    /\ move_object \in BOOLEAN
    /\ use_stream = TRUE
    /\ stream_method = "upload_from_file"
    /\ remote_files = <<>>
    /\ sftp = {source_path, PeerSource}
    /\ bucket \in {InitialBucket(kinds, {PeerDest}) : kinds \in Leftovers}
    /\ local_tmp = {}
    /\ pc = "start"
    /\ files = <<>>
    /\ pairs = <<>>
    /\ before = bucket
    /\ error = "none"
    /\ calls = <<>>
    /\ peer = "s_exists"

PeerUnchanged ==
    UNCHANGED <<source_path, destination_path, move_object, use_stream, stream_method,
                remote_files, sftp, local_tmp, pc, files, pairs, before, error, calls>>

\* temp_dest_blob.exists() before the transfer
PeerCheckStaleTemp ==
    /\ peer = "s_exists"
    /\ \/ peer' = IF PeerTmp \in DOMAIN bucket THEN "s_delete_stale" ELSE "s_transfer"
       \/ peer' = "failed"
    /\ UNCHANGED bucket
    /\ PeerUnchanged

\* temp_dest_blob.delete() of what it takes for a stale temp object
PeerDeleteStaleTemp ==
    /\ peer = "s_delete_stale"
    /\ \/ /\ PeerTmp \in DOMAIN bucket
          /\ bucket' = Remove(bucket, PeerTmp)
          /\ peer' = "s_transfer"
       \/ /\ peer' = "failed"
          /\ UNCHANGED bucket
    /\ PeerUnchanged

\* sftp_hook.get_conn().file(source_path, 'rb')
PeerOpenReadStream ==
    /\ peer = "s_transfer"
    /\ peer' \in {"s_upload", "failed"}
    /\ UNCHANGED bucket
    /\ PeerUnchanged

\* temp_dest_blob.upload_from_file(source_stream)
PeerUploadFromFile ==
    /\ peer = "s_upload"
    /\ \/ /\ bucket' = Put(bucket, PeerTmp, FullContent(PeerSource))
          /\ peer' = "s_check"
       \/ /\ peer' = "failed"
          /\ UNCHANGED bucket
    /\ PeerUnchanged

\* temp_dest_blob.exists() after the transfer
PeerCheckTemp ==
    /\ peer = "s_check"
    /\ \/ peer' = IF PeerTmp \in DOMAIN bucket THEN "s_copy" ELSE "done"
       \/ peer' = "failed"
    /\ UNCHANGED bucket
    /\ PeerUnchanged

\* dest_bucket.copy_blob(temp_dest_blob, dest_bucket, destination_object)
PeerCopyBlob ==
    /\ peer = "s_copy"
    /\ \/ /\ PeerTmp \in DOMAIN bucket
          /\ bucket' = Put(bucket, PeerDest, bucket[PeerTmp])
          /\ peer' = "s_delete_tmp"
       \/ /\ peer' = "failed"
          /\ UNCHANGED bucket
    /\ PeerUnchanged

\* temp_dest_blob.delete() after the copy
PeerDeleteTemp ==
    /\ peer = "s_delete_tmp"
    /\ \/ /\ PeerTmp \in DOMAIN bucket
          /\ bucket' = Remove(bucket, PeerTmp)
          /\ peer' = "done"
       \/ /\ peer' = "failed"
          /\ UNCHANGED bucket
    /\ PeerUnchanged

NextConcurrent ==
    \/ ExecuteSingle
    \/ CheckStaleTemp
    \/ DeleteStaleTemp
    \/ OpenReadStream
    \/ UploadFromFile
    \/ CheckTemp
    \/ CopyBlob
    \/ DeleteTemp
    \/ DeleteFile
    \/ PeerCheckStaleTemp
    \/ PeerDeleteStaleTemp
    \/ PeerOpenReadStream
    \/ PeerUploadFromFile
    \/ PeerCheckTemp
    \/ PeerCopyBlob
    \/ PeerDeleteTemp

SpecConcurrent == InitConcurrent /\ [][NextConcurrent]_vars

\* the temp object holds what this invocation / the other invocation uploaded
TempIsMine == pairs # <<>> /\ PeerTmp \in DOMAIN bucket
              /\ bucket[PeerTmp] = FullContent(source_path)
TempIsPeers == PeerTmp \in DOMAIN bucket /\ bucket[PeerTmp] = FullContent(PeerSource)

\* C18: under every interleaving of two upload_from_file invocations on one key, a step
\* of one invocation neither deletes nor copies to the final key a temp object that
\* holds the upload of the other.
ExclusiveTempOwnership ==
    [][/\ TempIsMine /\ peer' # peer =>
             /\ PeerTmp \in DOMAIN bucket'
             /\ peer = "s_copy" => bucket' = bucket
       /\ TempIsPeers /\ pc' # pc =>
             /\ PeerTmp \in DOMAIN bucket'
             /\ pc = "s_copy" => bucket' = bucket]_vars

\* the server-side copy of the current pair has returned
Copied ==
    \E k \in CallsOf("copyObject") : calls[k].pair = Len(pairs) /\ calls[k].res = "ok"

\* C19: in upload_from_file mode the final key of the pair being processed holds, in every
\* state, what it held when the pair started (or nothing, if it held nothing), until the
\* server-side copy has returned; from then on it holds the complete content of the
\* pair's source. It never holds partial content.
AtomicCommit ==
    InStream /\ pairs # <<>> =>
        IF Copied
        THEN /\ cur.dest \in DOMAIN bucket
             /\ bucket[cur.dest] = FullContent(cur.source)
        ELSE /\ cur.dest \in DOMAIN bucket <=> cur.dest \in DOMAIN before
             /\ cur.dest \in DOMAIN bucket => bucket[cur.dest] = before[cur.dest]

\* a failure after the copy: the key that held old content holds the complete new content
WitnessAtomicCommit ==
    /\ InStream /\ pairs # <<>> /\ Copied
    /\ pc = "failed"
    /\ cur.dest \in DOMAIN before /\ before[cur.dest] = OldContent
    /\ bucket[cur.dest] = FullContent(cur.source)

\* C20: in stream mode the object about to be copied to a pair's final key is the complete
\* content of that pair's source, every copy follows an upload of the same pair that
\* returned, and once the copy has returned the final key holds that content.
NoStaleCommit ==
    use_stream /\ pairs # <<>> =>
        /\ pc = "s_copy" =>
              /\ cur_tmp \in DOMAIN bucket
              /\ bucket[cur_tmp] = FullContent(cur.source)
        /\ pc = "s_delete_tmp" =>
              /\ cur.dest \in DOMAIN bucket
              /\ bucket[cur.dest] = FullContent(cur.source)
        /\ \A k \in CallsOf("copyObject") :
              \E j \in CallsOf("upload") :
                  j < k /\ calls[j].pair = calls[k].pair /\ calls[j].res = "ok"

\* a stale temp object was there when the pair started, and the copy has returned
WitnessNoStaleCommit ==
    /\ use_stream /\ pairs # <<>>
    /\ pc = "s_delete_tmp"
    /\ cur_tmp \in DOMAIN before /\ before[cur_tmp] = OldContent
    /\ bucket[cur.dest] = FullContent(cur.source)
====
